---- MODULE Spec2Model ----
(***************************************************************************)
(* Model of cloudmesh/common/systeminfo.py: the functions sys_user,        *)
(* get_platform and systeminfo.                                            *)
(*                                                                         *)
(* Python strings are sequences of one-character strings, so that `in`,    *)
(* split, replace, strip and re.sub are computed character by character.   *)
(* A Python value that is not a string (None, an int, a tuple, a psutil    *)
(* object) is a sequence whose first element is a tag written in angle     *)
(* brackets, which no string of characters can equal.                      *)
(* A dict is a function from keys to values; the insertion order of the    *)
(* OrderedDict is not modelled.                                            *)
(***************************************************************************)
EXTENDS Integers, Sequences, FiniteSets, TLC

VARIABLES
    pc,               \* position in the function being executed
    sysplatform,      \* sys.platform
    info, user, node, \* the arguments of systeminfo
    uname,            \* local uname of systeminfo
    mem,              \* local mem of systeminfo
    frequency,        \* local frequency
    cores,            \* local cores
    operating_system, \* local operating_system
    cpuquery,         \* what the platform's CPU query answered
    description,      \* local description
    data,             \* local data, the record under construction
    release_files,    \* the files Path("/etc").glob("*release") yields
    fi, li,           \* file and line the scan is at
    environ,          \* os.environ, for a direct call of sys_user
    osrelease,        \* /etc/os-release, for a direct call of get_platform
    ret               \* the value a direct call returned

vars == <<pc, sysplatform, info, user, node, uname, mem, frequency, cores,
          operating_system, cpuquery, description, data, release_files,
          fi, li, environ, osrelease, ret>>

----------------------------------------------------------------------------
(* Bounds *)

MaxFiles == 2
MaxLines == 2

----------------------------------------------------------------------------
(* String constants *)

S_darwin == <<"d","a","r","w","i","n">>
S_win32 == <<"w","i","n","3","2">>
S_linux == <<"l","i","n","u","x">>
S_cygwin == <<"c","y","g","w","i","n">>
S_macos == <<"m","a","c","o","s">>
S_windows == <<"w","i","n","d","o","w","s">>
S_raspberry == <<"r","a","s","p","b","e","r","r","y">>
S_raspbian == <<"r","a","s","p","b","i","a","n">>
S_model_name == <<"m","o","d","e","l"," ","n","a","m","e">>
S_collab == <<"c","o","l","l","a","b">>
S_root == <<"r","o","o","t">>
S_None == <<"N","o","n","e">>
S_unkown == <<"u","n","k","o","w","n">>
S_slash_root == <<"/","r","o","o","t">>
S_mem_dot == <<"m","e","m",".">>
S_MiB == <<" ","M","i","B">>
S_pct == <<" ","%">>
EmptyStr == <<>>

K_cpu == <<"c","p","u">>
K_cpu_count == <<"c","p","u","_","c","o","u","n","t">>
K_cpu_threads == <<"c","p","u","_","t","h","r","e","a","d","s">>
K_cpu_cores == <<"c","p","u","_","c","o","r","e","s">>
K_uname_system == <<"u","n","a","m","e",".","s","y","s","t","e","m">>
K_uname_node == <<"u","n","a","m","e",".","n","o","d","e">>
K_uname_release == <<"u","n","a","m","e",".","r","e","l","e","a","s","e">>
K_uname_version == <<"u","n","a","m","e",".","v","e","r","s","i","o","n">>
K_uname_machine == <<"u","n","a","m","e",".","m","a","c","h","i","n","e">>
K_uname_processor == <<"u","n","a","m","e",".","p","r","o","c","e","s","s","o","r">>
K_sys_platform == <<"s","y","s",".","p","l","a","t","f","o","r","m">>
K_python == <<"p","y","t","h","o","n">>
K_python_version == <<"p","y","t","h","o","n",".","v","e","r","s","i","o","n">>
K_python_pip == <<"p","y","t","h","o","n",".","p","i","p">>
K_user == <<"u","s","e","r">>
K_mem_percent == <<"m","e","m",".","p","e","r","c","e","n","t">>
K_frequency == <<"f","r","e","q","u","e","n","c","y">>
K_platform_version == <<"p","l","a","t","f","o","r","m",".","v","e","r","s","i","o","n">>

(* Python values that are not strings *)
PyNone == <<"<None>">>
PyInt(digits) == <<"<int>">> \o digits
PyTuple(items) == <<"<tuple>">> \o items
PyObject(name) == <<"<object>", name>>

(* An optional argument: None, or a value *)
NoArg == [given |-> FALSE, value |-> EmptyStr]
Arg(v) == [given |-> TRUE, value |-> v]

----------------------------------------------------------------------------
(* String operations of Python, computed on sequences of characters *)

Whitespace == {" ", "\t", "\n"}

\* sub in s
Contains(s, sub) ==
    \E i \in 1..(Len(s) - Len(sub) + 1) : SubSeq(s, i, i + Len(sub) - 1) = sub

\* the index of the first c in s, 0 when there is none
FirstIndex(s, c) ==
    IF \E i \in 1..Len(s) : s[i] = c
    THEN CHOOSE i \in 1..Len(s) : s[i] = c /\ \A j \in 1..(i - 1) : s[j] # c
    ELSE 0

\* the index of the last c in s, 0 when there is none
LastIndex(s, c) ==
    IF \E i \in 1..Len(s) : s[i] = c
    THEN CHOOSE i \in 1..Len(s) : s[i] = c /\ \A j \in (i + 1)..Len(s) : s[j] # c
    ELSE 0

\* s.split(c, 1) for s that contains c
SplitOnce(s, c) ==
    LET i == FirstIndex(s, c)
    IN  <<SubSeq(s, 1, i - 1), SubSeq(s, i + 1, Len(s))>>

\* s.replace(c, "")
Remove(s, c) == SelectSeq(s, LAMBDA x : x # c)

RECURSIVE LStrip(_)
LStrip(s) == IF s # <<>> /\ Head(s) \in Whitespace THEN LStrip(Tail(s)) ELSE s

RECURSIVE RStrip(_)
RStrip(s) ==
    IF s # <<>> /\ s[Len(s)] \in Whitespace
    THEN RStrip(SubSeq(s, 1, Len(s) - 1))
    ELSE s

\* s.strip()
Strip(s) == RStrip(LStrip(s))

Digit(d) == <<"0","1","2","3","4","5","6","7","8","9">>[d + 1]

\* str(n) for a natural number n
RECURSIVE Digits(_)
Digits(n) == IF n < 10 THEN <<Digit(n)>> ELSE Digits(n \div 10) \o <<Digit(n % 10)>>

----------------------------------------------------------------------------
(* The environment the functions read *)

Platforms == {S_darwin, S_win32, S_linux, S_cygwin}

S_USERNAME_value == <<"w","i","n">>
S_USER_value == <<"u">>
S_home_u == <<"/","h","o","m","e","/","u">>

EnvVars == {"COLAB_GPU", "USERNAME", "USER", "HOME"}

EnvValues(var) ==
    CASE var = "COLAB_GPU" -> {<<"1">>}
      [] var = "USERNAME" -> {S_USERNAME_value}
      [] var = "USER" -> {S_USER_value}
      [] var = "HOME" -> {S_slash_root, S_home_u}

\* os.environ: any subset of the variables sys_user reads may be set
Environs ==
    UNION { {e \in [D -> UNION {EnvValues(v) : v \in EnvVars}] :
                \A v \in D : e[v] \in EnvValues(v)} : D \in SUBSET EnvVars }

L_name == <<"N","A","M","E","=","U","b","u","n","t","u">>
L_version_id == <<"V","E","R","S","I","O","N"," ","I","D","=","2","0",".","0","4">>
L_plain == <<"U","b","u","n","t","u">>
L_user == <<"u","s","e","r","=","a","=","b">>
L_raspbian == <<"I","D","=","r","a","s","p","b","i","a","n">>

LinePool == {L_name, L_version_id, L_plain, L_user, L_raspbian}

SeqsUpTo(pool, n) == UNION {[1..k -> pool] : k \in 0..n}

\* what readfile gives: the lines of the file, or an exception
Unreadable == [ok |-> FALSE, lines |-> <<>>]
Readable(ls) == [ok |-> TRUE, lines |-> ls]

OsReleaseReads == {Unreadable} \cup {Readable(ls) : ls \in SeqsUpTo(LinePool, MaxLines)}

\* a release file is one that cannot be read, or this one
F_os_release == Readable(<<L_name, L_version_id, L_plain, L_user>>)
FilePool == {Unreadable, F_os_release}

\* what Path("/etc").glob("*release") can yield
GlobResults == SeqsUpTo(FilePool, MaxFiles)

C_model == <<"m","o","d","e","l"," ","n","a","m","e","\t",":"," ","i","7"," ">>
C_flags == <<"f","l","a","g","s","\t",":"," ","f","p","u">>
CpuInfoReads ==
    {Unreadable, Readable(<<>>), Readable(<<C_flags>>), Readable(<<C_model, C_flags>>)}

\* the output of `sysctl -n machdep.cpu.brand_string`; empty when the command fails
PopenReads == {Readable(<<EmptyStr>>), Readable(<<<<"M","1","\n">>>>)}

NoQuery == [ok |-> FALSE, lines |-> <<>>]

\* platform.uname()
Uname(p) ==
    [system |-> CASE p = S_darwin -> <<"D","a","r","w","i","n">>
                  [] p = S_win32 -> <<"W","i","n","d","o","w","s">>
                  [] p = S_linux -> <<"L","i","n","u","x">>
                  [] OTHER -> <<"C","Y","G","W","I","N">>,
     node |-> <<"h","o","s","t">>,
     release |-> <<"5",".","4">>,
     version |-> <<"#","1">>,
     machine |-> <<"x","8","6">>,
     processor |-> <<"I","n","t","e","l","6","4"," ">>]

NoUname == [system |-> EmptyStr, node |-> EmptyStr, release |-> EmptyStr,
            version |-> EmptyStr, machine |-> EmptyStr, processor |-> EmptyStr]

A_total == <<"t","o","t","a","l">>
A_available == <<"a","v","a","i","l","a","b","l","e">>
A_used == <<"u","s","e","d">>
A_free == <<"f","r","e","e">>
A_active == <<"a","c","t","i","v","e">>
A_inactive == <<"i","n","a","c","t","i","v","e">>
A_wired == <<"w","i","r","e","d">>

\* the attributes systeminfo asks of mem, in the order of its loop
MemAttributes == <<A_total, A_available, A_used, A_free, A_active, A_inactive, A_wired>>

AttributeSet == {MemAttributes[i] : i \in 1..Len(MemAttributes)}

\* the attributes mem lacks on the platform: none, the first of the loop, one
\* in its middle, its last, or its last three
UnavailableSets ==
    {{}, {A_total}, {A_active}, {A_wired}, {A_active, A_inactive, A_wired}}

\* psutil.virtual_memory(): percent in tenths, and bytes per available attribute
VirtualMemory(unavailable) ==
    [percent |-> 619,
     bytes |-> [a \in AttributeSet \ unavailable |->
                  (CHOOSE i \in 1..Len(MemAttributes) : MemAttributes[i] = a) * 100 * 2^20]]

NoMem == [percent |-> 0, bytes |-> [a \in {} |-> 0]]

\* str(x) of a float given in tenths
StrFloat(tenths) == Digits(tenths \div 10) \o <<".">> \o Digits(tenths % 10)

\* humanize.naturalsize(v, binary=True), for v below 2^30
NaturalSize(v) ==
    IF v < 2^10
    THEN Digits(v) \o (IF v = 1 THEN <<" ","B","y","t","e">> ELSE <<" ","B","y","t","e","s">>)
    ELSE LET unit == IF v < 2^20 THEN 2^10 ELSE 2^20
             tenths == (v \div unit) * 10 + ((v % unit) * 10 + unit \div 2) \div unit
         IN  Digits(tenths \div 10) \o <<".">> \o Digits(tenths % 10)
               \o (IF v < 2^20 THEN <<" ","K","i","B">> ELSE S_MiB)

S_sys_version == <<"3",".","9"," ","(","m","a","i","n",")">>
S_pip_version == <<"2","1",".","0">>
S_mac_ver == <<"1","0",".","1","5">>
CpuCount == PyInt(<<"8">>)
PhysicalCores == PyInt(<<"4">>)
CpuFreq == PyObject("scpufreq")
Win32Ver == PyTuple(<<"10">>)

----------------------------------------------------------------------------
(* sys_user *)

sys_user_UserFirst(p, env) ==
    IF "COLAB_GPU" \in DOMAIN env THEN S_collab
    ELSE IF "USER" \in DOMAIN env THEN env["USER"]
    ELSE IF p = S_win32 /\ "USERNAME" \in DOMAIN env THEN env["USERNAME"]
    ELSE IF "HOME" \in DOMAIN env /\ env["HOME"] = S_slash_root THEN S_root
    ELSE S_None

sys_user_AnyHome(p, env) ==
    IF "COLAB_GPU" \in DOMAIN env THEN S_collab
    ELSE IF p = S_win32 /\ "USERNAME" \in DOMAIN env THEN env["USERNAME"]
    ELSE IF "USER" \in DOMAIN env THEN env["USER"]
    ELSE IF "HOME" \in DOMAIN env THEN S_root
    ELSE S_None

\* A KeyError of os.environ[...] is caught by the except of its try, and the
\* function goes on with the next try.
sys_user(p, env) ==
    IF "COLAB_GPU" \in DOMAIN env THEN S_collab
    ELSE IF p = S_win32 /\ "USERNAME" \in DOMAIN env THEN env["USERNAME"]
    ELSE IF "USER" \in DOMAIN env THEN env["USER"]
    ELSE IF "HOME" \in DOMAIN env /\ env["HOME"] = S_slash_root THEN S_root
    ELSE S_None

----------------------------------------------------------------------------
(* get_platform *)

\* sub in content, for the content readfile returned
ContentContains(read, sub) == \E i \in 1..Len(read.lines) : Contains(read.lines[i], sub)

get_platform_AnyRaspbian(p, read) ==
    IF p = S_darwin THEN S_macos
    ELSE IF p = S_win32 THEN S_windows
    ELSE IF read.ok
         THEN IF ContentContains(read, S_raspbian) THEN S_raspberry ELSE p
         ELSE p

\* read is what readfile('/etc/os-release') gives if it is called
get_platform(p, read) ==
    IF p = S_darwin THEN S_macos
    ELSE IF p = S_win32 THEN S_windows
    ELSE IF read.ok
         THEN IF p = S_linux /\ ContentContains(read, S_raspbian)
              THEN S_raspberry
              ELSE p
         ELSE p

----------------------------------------------------------------------------
(* systeminfo: the pure parts *)

Put(d, k, v) == [x \in DOMAIN d \cup {k} |-> IF x = k THEN v ELSE d[x]]

\* d.update(m)
Update(d, m) == [x \in DOMAIN d \cup DOMAIN m |-> IF x \in DOMAIN m THEN m[x] ELSE d[x]]

EmptyDict == [x \in {} |-> EmptyStr]

IsBlank(s) == \A i \in 1..Len(s) : s[i] \in Whitespace

\* content.strip().splitlines(), on the lines of content
RECURSIVE StripLines(_)
StripLines(lines) ==
    IF lines = <<>> THEN <<>>
    ELSE IF IsBlank(Head(lines)) THEN StripLines(Tail(lines))
    ELSE IF IsBlank(lines[Len(lines)]) THEN StripLines(SubSeq(lines, 1, Len(lines) - 1))
    ELSE IF Len(lines) = 1 THEN <<Strip(lines[1])>>
    ELSE <<LStrip(Head(lines))>> \o SubSeq(lines, 2, Len(lines) - 1)
           \o <<RStrip(lines[Len(lines)])>>

\* re.sub(".*model name.*:", "", line, 1): both .* are greedy, so the match runs
\* from the start of the line to its last colon, if that colon comes after a
\* "model name"; without a match the line is returned as it is
ReSubModelName(line) ==
    LET n == Len(S_model_name)
        starts == {i \in 1..(Len(line) - n + 1) : SubSeq(line, i, i + n - 1) = S_model_name}
        colon == LastIndex(line, ":")
    IN  IF \E i \in starts : i + n - 1 < colon
        THEN SubSeq(line, colon + 1, Len(line))
        ELSE line

\* the loop over the lines of /proc/cpuinfo: the last "model name" line wins
RECURSIVE CpuInfoDescription(_, _)
CpuInfoDescription(lines, acc) ==
    IF lines = <<>> THEN acc
    ELSE CpuInfoDescription(Tail(lines),
                            IF Contains(Head(lines), S_model_name)
                            THEN ReSubModelName(Head(lines))
                            ELSE acc)

\* the query the branch taken for operating_system makes, and its possible answers
CpuQueries(os) ==
    IF os = S_macos THEN PopenReads
    ELSE IF os = S_linux THEN CpuInfoReads
    ELSE {NoQuery}

\* description after the try of lines 183-194; un is uname, q the query's answer
Description(os, un, q) ==
    IF os = S_macos THEN (IF q.ok THEN q.lines[1] ELSE EmptyStr)
    ELSE IF os = S_win32 THEN un.processor
    ELSE IF os = S_linux
         THEN (IF q.ok THEN CpuInfoDescription(StripLines(q.lines), EmptyStr) ELSE EmptyStr)
    ELSE EmptyStr

FixedKeys ==
    {K_cpu, K_cpu_count, K_cpu_threads, K_cpu_cores, K_uname_system, K_uname_node,
     K_uname_release, K_uname_version, K_uname_machine, K_uname_processor,
     K_sys_platform, K_python, K_python_version, K_python_pip, K_user,
     K_mem_percent, K_frequency}

BaseRecordFull(desc, cor, un, p, usr, m, freq) ==
    (K_cpu :> Strip(desc))
    @@ (K_cpu_count :> CpuCount)
    @@ (K_cpu_threads :> CpuCount)
    @@ (K_cpu_cores :> cor)
    @@ (K_uname_system :> un.system)
    @@ (K_uname_node :> un.node)
    @@ (K_uname_release :> un.release)
    @@ (K_uname_version :> un.version)
    @@ (K_uname_machine :> un.machine)
    @@ (K_uname_processor :> un.processor)
    @@ (K_sys_platform :> p)
    @@ (K_python :> S_sys_version)
    @@ (K_python_version :> SplitOnce(S_sys_version, " ")[1])
    @@ (K_python_pip :> S_pip_version)
    @@ (K_user :> usr)
    @@ (K_mem_percent :> StrFloat(m.percent) \o S_pct)
    @@ (K_frequency :> freq)

BaseRecord_DropUnset(desc, cor, un, p, usr, m, freq) ==
    LET full == BaseRecordFull(desc, cor, un, p, usr, m, freq)
    IN  [k \in {x \in DOMAIN full : full[x] \notin {PyNone, S_unkown}} |-> full[k]]

\* the OrderedDict of lines 197-215
BaseRecord(desc, cor, un, p, usr, m, freq) ==
    BaseRecordFull(desc, cor, un, p, usr, m, freq)

MemKey(a) == S_mem_dot \o a

\* the loop of lines 216-228, from attribute i on: getattr raises for an
\* attribute mem lacks, and the except of that iteration passes
RECURSIVE MemLoop(_, _, _)
MemLoop(d, m, i) ==
    IF i > Len(MemAttributes) THEN d
    ELSE IF MemAttributes[i] \in DOMAIN m.bytes
         THEN MemLoop(Put(d, MemKey(MemAttributes[i]),
                          NaturalSize(m.bytes[MemAttributes[i]])),
                      m, i + 1)
         ELSE MemLoop(d, m, i + 1)

ParseLine_LastEquals(d, line) ==
    IF \E i \in 1..Len(line) : line[i] = "="
    THEN LET i == LastIndex(line, "=")
         IN  Put(d, Remove(SubSeq(line, 1, i - 1), " "), SubSeq(line, i + 1, Len(line)))
    ELSE d

\* lines 243-246, for one line of a release file
ParseLine(d, line) ==
    IF \E i \in 1..Len(line) : line[i] = "="
    THEN LET kv == SplitOnce(line, "=")
         IN  Put(d, Remove(kv[1], " "), kv[2])
    ELSE d

ApplyOverrides_KeepProbed(d, inf, usr, nod) ==
    LET d1 == IF inf.given THEN Update(inf.value, d) ELSE d
        d2 == IF usr.given THEN Put(d1, K_user, usr.value) ELSE d1
    IN  IF nod.given THEN Put(d2, K_uname_node, nod.value) ELSE d2

ApplyOverrides_InfoLast(d, inf, usr, nod) ==
    LET d1 == IF usr.given THEN Put(d, K_user, usr.value) ELSE d
        d2 == IF nod.given THEN Put(d1, K_uname_node, nod.value) ELSE d1
    IN  IF inf.given THEN Update(d2, inf.value) ELSE d2

\* lines 249-254
ApplyOverrides(d, inf, usr, nod) ==
    LET d1 == IF inf.given THEN Update(d, inf.value) ELSE d
        d2 == IF usr.given THEN Put(d1, K_user, usr.value) ELSE d1
    IN  IF nod.given THEN Put(d2, K_uname_node, nod.value) ELSE d2

\* the arguments a caller passes
S_TestCPU == <<"T","e","s","t","C","P","U">>
S_Debian == <<"D","e","b","i","a","n">>
S_carol == <<"c","a","r","o","l">>
S_n1 == <<"n","1">>
S_alice == <<"a","l","i","c","e">>
S_n2 == <<"n","2">>
K_NAME == <<"N","A","M","E">>
K_VERSIONID == <<"V","E","R","S","I","O","N","I","D">>
I_all ==
    (K_cpu :> S_TestCPU) @@ (K_NAME :> S_Debian) @@ (K_user :> S_carol)
    @@ (K_uname_node :> S_n1)
InfoArgs == {NoArg, Arg(I_all)}
UserArgs == {NoArg, Arg(S_alice)}
NodeArgs == {NoArg, Arg(S_n2)}

NoEnviron == [v \in {} |-> EmptyStr]

----------------------------------------------------------------------------
(* systeminfo: one action per statement or loop iteration.  pc = "raised" is *)
(* an exception that no except clause caught and that reaches the caller.   *)

Locals == <<uname, mem, frequency, cores, operating_system, cpuquery, description>>
Scan == <<release_files, fi, li>>
Args == <<sysplatform, info, user, node>>
Direct == <<environ, osrelease, ret>>

Init ==
    /\ pc = "uname"
    /\ sysplatform \in Platforms
    /\ info \in InfoArgs
    /\ user \in UserArgs
    /\ node \in NodeArgs
    /\ uname = NoUname
    /\ mem = NoMem
    /\ frequency = PyNone
    /\ cores = PyNone
    /\ operating_system = EmptyStr
    /\ cpuquery = NoQuery
    /\ description = EmptyStr
    /\ data = EmptyDict
    /\ release_files = <<>>
    /\ fi = 0
    /\ li = 0
    /\ environ = NoEnviron
    /\ osrelease = Unreadable
    /\ ret = EmptyStr

\* line 159: uname = platform.uname(), outside any try
UnameQuery ==
    /\ pc = "uname"
    /\ \/ uname' = Uname(sysplatform) /\ pc' = "vmem"
       \/ pc' = "raised" /\ UNCHANGED uname
    /\ UNCHANGED <<Args, mem, frequency, cores, operating_system, cpuquery,
                   description, data, Scan, Direct>>

\* line 160: mem = psutil.virtual_memory(), outside any try
VirtualMemoryQuery ==
    /\ pc = "vmem"
    /\ \/ \E un \in UnavailableSets : mem' = VirtualMemory(un) /\ pc' = "freq"
       \/ pc' = "raised" /\ UNCHANGED mem
    /\ UNCHANGED <<Args, uname, frequency, cores, operating_system, cpuquery,
                   description, data, Scan, Direct>>

\* lines 170-173
CpuFreqQuery ==
    /\ pc = "freq"
    /\ frequency' \in {CpuFreq, PyNone}
    /\ pc' = "cores"
    /\ UNCHANGED <<Args, uname, mem, cores, operating_system, cpuquery,
                   description, data, Scan, Direct>>

\* lines 175-178
CpuCoresQuery ==
    /\ pc = "cores"
    /\ cores' \in {PhysicalCores, S_unkown}
    /\ pc' = "platform"
    /\ UNCHANGED <<Args, uname, mem, frequency, operating_system, cpuquery,
                   description, data, Scan, Direct>>

\* line 180
GetPlatform ==
    /\ pc = "platform"
    /\ \E read \in OsReleaseReads : operating_system' = get_platform(sysplatform, read)
    /\ pc' = "description"
    /\ UNCHANGED <<Args, uname, mem, frequency, cores, cpuquery,
                   description, data, Scan, Direct>>

\* lines 182-194
CpuDescription ==
    /\ pc = "description"
    /\ \E q \in CpuQueries(operating_system) :
           /\ cpuquery' = q
           /\ description' = Description(operating_system, uname, q)
    /\ pc' = "data"
    /\ UNCHANGED <<Args, uname, mem, frequency, cores, operating_system,
                   data, Scan, Direct>>

\* lines 197-215; sys_user() reads the environment of the process
BuildData ==
    /\ pc = "data"
    /\ \E env \in Environs :
           data' = BaseRecord(description, cores, uname, sysplatform,
                              sys_user(sysplatform, env), mem, frequency)
    /\ pc' = "memory"
    /\ UNCHANGED <<Args, Locals, Scan, Direct>>

\* lines 216-228
MemoryAttributes ==
    /\ pc = "memory"
    /\ data' = MemLoop(data, mem, 1)
    /\ pc' = "version"
    /\ UNCHANGED <<Args, Locals, Scan, Direct>>

\* lines 231-236: platform.mac_ver() and platform.win32_ver() are outside any try
PlatformVersion ==
    /\ pc = "version"
    /\ \/ /\ data[K_sys_platform] = S_darwin
          /\ data' = Put(data, K_platform_version, S_mac_ver)
          /\ pc' = "glob"
       \/ /\ data[K_sys_platform] = S_win32
          /\ data' = Put(data, K_platform_version, Win32Ver)
          /\ pc' = "glob"
       \/ /\ data[K_sys_platform] \in {S_darwin, S_win32}
          /\ pc' = "raised"
          /\ UNCHANGED data
       \/ /\ data[K_sys_platform] \notin {S_darwin, S_win32}
          /\ data' = Put(data, K_platform_version, uname.version)
          /\ pc' = "glob"
    /\ UNCHANGED <<Args, Locals, Scan, Direct>>

\* line 239
Glob ==
    /\ pc = "glob"
    /\ release_files' \in GlobResults
    /\ fi' = 1
    /\ pc' = "file"
    /\ UNCHANGED <<Args, Locals, data, li, Direct>>

\* lines 240-241: the next file is read; a file that cannot be read raises, and
\* the except of line 247, which encloses the loop over the files, passes
ReadFile ==
    /\ pc = "file"
    /\ fi <= Len(release_files)
    /\ IF release_files[fi].ok
       THEN pc' = "line" /\ li' = 1
       ELSE pc' = "overrides" /\ UNCHANGED li
    /\ UNCHANGED <<Args, Locals, data, release_files, fi, Direct>>

\* lines 242-246, one line
ScanLine ==
    /\ pc = "line"
    /\ li <= Len(release_files[fi].lines)
    /\ data' = ParseLine(data, release_files[fi].lines[li])
    /\ li' = li + 1
    /\ UNCHANGED <<pc, Args, Locals, release_files, fi, Direct>>

\* line 242: the lines of the file are exhausted
EndOfFile ==
    /\ pc = "line"
    /\ li > Len(release_files[fi].lines)
    /\ fi' = fi + 1
    /\ pc' = "file"
    /\ UNCHANGED <<Args, Locals, data, release_files, li, Direct>>

\* line 240: the files are exhausted
EndOfGlob ==
    /\ pc = "file"
    /\ fi > Len(release_files)
    /\ pc' = "overrides"
    /\ UNCHANGED <<Args, Locals, data, Scan, Direct>>

\* lines 249-255
Overrides ==
    /\ pc = "overrides"
    /\ data' = ApplyOverrides(data, info, user, node)
    /\ pc' = "done"
    /\ UNCHANGED <<Args, Locals, Scan, Direct>>

Next ==
    \/ UnameQuery
    \/ VirtualMemoryQuery
    \/ CpuFreqQuery
    \/ CpuCoresQuery
    \/ GetPlatform
    \/ CpuDescription
    \/ BuildData
    \/ MemoryAttributes
    \/ PlatformVersion
    \/ Glob
    \/ ReadFile
    \/ ScanLine
    \/ EndOfFile
    \/ EndOfGlob
    \/ Overrides

Spec == Init /\ [][Next]_vars

----------------------------------------------------------------------------
(* A direct call of sys_user *)

InitUser ==
    /\ pc = "sys_user"
    /\ sysplatform \in Platforms
    /\ environ \in Environs
    /\ info = NoArg /\ user = NoArg /\ node = NoArg
    /\ uname = NoUname /\ mem = NoMem /\ frequency = PyNone /\ cores = PyNone
    /\ operating_system = EmptyStr /\ cpuquery = NoQuery /\ description = EmptyStr
    /\ data = EmptyDict /\ release_files = <<>> /\ fi = 0 /\ li = 0
    /\ osrelease = Unreadable
    /\ ret = EmptyStr

SysUser ==
    /\ pc = "sys_user"
    /\ ret' = sys_user(sysplatform, environ)
    /\ pc' = "returned"
    /\ UNCHANGED <<Args, Locals, data, Scan, environ, osrelease>>

NextUser == SysUser

SpecUser == InitUser /\ [][NextUser]_vars

----------------------------------------------------------------------------
(* A direct call of get_platform *)

InitPlatform ==
    /\ pc = "get_platform"
    /\ sysplatform \in Platforms
    /\ osrelease \in OsReleaseReads
    /\ environ = NoEnviron
    /\ info = NoArg /\ user = NoArg /\ node = NoArg
    /\ uname = NoUname /\ mem = NoMem /\ frequency = PyNone /\ cores = PyNone
    /\ operating_system = EmptyStr /\ cpuquery = NoQuery /\ description = EmptyStr
    /\ data = EmptyDict /\ release_files = <<>> /\ fi = 0 /\ li = 0
    /\ ret = EmptyStr

GetPlatformCall ==
    /\ pc = "get_platform"
    /\ ret' = get_platform(sysplatform, osrelease)
    /\ pc' = "returned"
    /\ UNCHANGED <<Args, Locals, data, Scan, environ, osrelease>>

NextPlatform == GetPlatformCall

SpecPlatform == InitPlatform /\ [][NextPlatform]_vars

----------------------------------------------------------------------------
(* Properties *)

HasEquals(line) == \E i \in 1..Len(line) : line[i] = "="

\* the key a release-file line defines: what precedes its first "=", without spaces
LineKey(line) ==
    LET i == CHOOSE i \in 1..Len(line) : line[i] = "=" /\ \A j \in 1..(i - 1) : line[j] # "="
    IN  SelectSeq(SubSeq(line, 1, i - 1), LAMBDA c : c # " ")

\* the value a release-file line defines: all that follows its first "="
LineValue(line) ==
    LET i == CHOOSE i \in 1..Len(line) : line[i] = "=" /\ \A j \in 1..(i - 1) : line[j] # "="
    IN  [k \in 1..(Len(line) - i) |-> line[i + k]]

RecordBuilt == pc \in {"memory", "version", "glob", "file", "line", "overrides", "done"}

\* C1: a call of systeminfo never ends in an error that reaches the caller,
\* whichever probes fail.
C1_NeverFails == pc # "raised"

\* every key a probe of systeminfo can write: the fixed keys, platform.version
\* and the seven mem.<attribute> keys
ProbeKeys == FixedKeys \cup {K_platform_version} \cup {MemKey(a) : a \in AttributeSet}

\* C2, as claimed: every record returned has the key of every probe, failed or
\* not; only the keys parsed from release files may be absent.
C2_Original == pc = "done" => ProbeKeys \subseteq DOMAIN data

\* C2, amended: the record has every fixed key from the moment it is built, a
\* failed probe of the core count, the frequency or the CPU description leaves
\* its sentinel ("unkown", None, "") under its key, and the returned record
\* also has platform.version and the mem.<attribute> key of every attribute
\* that mem has; the mem.<attribute> keys of the other attributes may be absent.
C2_FixedKeys ==
    /\ RecordBuilt => FixedKeys \subseteq DOMAIN data
    /\ pc = "memory" =>
          /\ data[K_cpu_cores] \in {PhysicalCores, S_unkown}
          /\ data[K_frequency] \in {CpuFreq, PyNone}
          /\ (operating_system = S_linux /\ ~cpuquery.ok) => data[K_cpu] = EmptyStr
    /\ pc = "done" =>
          /\ K_platform_version \in DOMAIN data
          /\ \A a \in DOMAIN mem.bytes : MemKey(a) \in DOMAIN data

C2_Witness ==
    /\ pc = "done"
    /\ cores = S_unkown
    /\ frequency = PyNone
    /\ operating_system = S_linux /\ ~cpuquery.ok
    /\ MemKey(A_wired) \notin DOMAIN data
    /\ data[K_cpu_cores] = S_unkown
    /\ FixedKeys \subseteq DOMAIN data

\* no signal of sys_user matches
NoSignal ==
    /\ "COLAB_GPU" \notin DOMAIN environ
    /\ ~(sysplatform = S_win32 /\ "USERNAME" \in DOMAIN environ)
    /\ "USER" \notin DOMAIN environ
    /\ "HOME" \in DOMAIN environ => environ["HOME"] # S_slash_root

\* the sentinel the claim names
S_unknown == <<"u","n","k","n","o","w","n">>

\* C3, as claimed: when no signal matches, sys_user returns "unknown".
C3_Original == (pc = "returned" /\ NoSignal) => ret = S_unknown

\* C3, amended: when no signal matches, sys_user returns the string "None".
C3_ReturnsNone == (pc = "returned" /\ NoSignal) => ret = S_None

C3_Witness ==
    /\ pc = "returned"
    /\ NoSignal
    /\ "HOME" \in DOMAIN environ
    /\ sysplatform = S_win32
    /\ ret = S_None

\* C4: sys_user resolves by strict priority: the notebook marker, then USERNAME
\* on Windows, then USER, then HOME equal to /root.
C4_Priority ==
    pc = "returned" =>
       LET colab == "COLAB_GPU" \in DOMAIN environ
           username == sysplatform = S_win32 /\ "USERNAME" \in DOMAIN environ
           usr == "USER" \in DOMAIN environ
           home == "HOME" \in DOMAIN environ /\ environ["HOME"] = S_slash_root
       IN  /\ colab => ret = S_collab
           /\ (~colab /\ username) => ret = environ["USERNAME"]
           /\ (~colab /\ ~username /\ usr) => ret = environ["USER"]
           /\ (~colab /\ ~username /\ ~usr /\ home) => ret = S_root

C4_Witness ==
    /\ pc = "returned"
    /\ sysplatform = S_win32
    /\ DOMAIN environ = {"USER", "HOME"}
    /\ environ["HOME"] = S_slash_root
    /\ ret = S_USER_value

\* C5: every key of info has info's value in the returned record, except user
\* and uname.node when the user or node argument is given.
C5_InfoWins ==
    (pc = "done" /\ info.given) =>
       \A k \in DOMAIN info.value :
          \/ k = K_user /\ user.given
          \/ k = K_uname_node /\ node.given
          \/ k \in DOMAIN data /\ data[k] = info.value[k]

C5_Witness ==
    /\ pc = "done"
    /\ info = Arg(I_all)
    /\ ~user.given
    /\ Strip(description) \notin {EmptyStr, S_TestCPU}
    /\ release_files = <<F_os_release>>
    /\ data[K_cpu] = S_TestCPU
    /\ data[K_NAME] = S_Debian
    /\ data[K_user] = S_carol

\* C6: the step that applies the arguments leaves user and uname.node equal to
\* the user and node arguments when they are given, whatever info, the release
\* files and the environment gave; when one is not given, its key has the value
\* of info if info has the key, and keeps its earlier value otherwise.
C6_UserNodeLast ==
    [][(pc = "overrides" /\ pc' = "done") =>
          /\ user.given => data'[K_user] = user.value
          /\ node.given => data'[K_uname_node] = node.value
          /\ ~user.given =>
                data'[K_user] = IF info.given /\ K_user \in DOMAIN info.value
                                THEN info.value[K_user]
                                ELSE data[K_user]
          /\ ~node.given =>
                data'[K_uname_node] = IF info.given /\ K_uname_node \in DOMAIN info.value
                                      THEN info.value[K_uname_node]
                                      ELSE data[K_uname_node]]_vars

C6_Witness ==
    /\ pc = "done"
    /\ user = Arg(S_alice)
    /\ node = Arg(S_n2)
    /\ info = Arg(I_all)
    /\ release_files = <<F_os_release>>
    /\ data[K_user] = S_alice
    /\ data[K_uname_node] = S_n2

\* the "=" lines of the release files, as (file, line) positions in scan order
EqualsLines ==
    {p \in UNION {{<<i, j>> : j \in 1..Len(release_files[i].lines)} :
                     i \in 1..Len(release_files)} :
        HasEquals(release_files[p[1]].lines[p[2]])}

LineAt(p) == release_files[p[1]].lines[p[2]]

Later(p, q) == q[1] > p[1] \/ (q[1] = p[1] /\ q[2] > p[2])

C8_Isolation ==
    pc = "done" =>
       /\ \A a \in DOMAIN mem.bytes : MemKey(a) \in DOMAIN data
       /\ \A i \in 1..Len(release_files) :
             release_files[i].ok =>
                \A j \in 1..Len(release_files[i].lines) :
                   HasEquals(release_files[i].lines[j]) =>
                      LineKey(release_files[i].lines[j]) \in DOMAIN data

\* the text after the colon of a "model name" line
AfterColon(line) ==
    LET i == CHOOSE i \in 1..Len(line) : line[i] = ":"
    IN  [k \in 1..(Len(line) - i) |-> line[i + k]]

\* C9: in the record as built, cpu is the stripped answer of the query of the
\* platform family: the shell query on macos, the processor name on windows,
\* the text after the colon of the "model name" line of /proc/cpuinfo on linux.
C9_CpuByFamily ==
    pc = "memory" =>
       /\ operating_system = S_macos => data[K_cpu] = Strip(cpuquery.lines[1])
       /\ operating_system = S_windows => data[K_cpu] = Strip(uname.processor)
       /\ (operating_system = S_linux /\ cpuquery.ok) =>
             \A i \in 1..Len(cpuquery.lines) :
                Contains(cpuquery.lines[i], S_model_name) =>
                   data[K_cpu] = Strip(AfterColon(cpuquery.lines[i]))

\* C10: get_platform gives macos for darwin and windows for win32 whatever the
\* OS-release file is, raspberry for linux exactly when the file can be read and
\* has the raspbian marker, and the platform identifier in every other case.
C10_Classifies ==
    pc = "returned" =>
       LET marker == /\ osrelease.ok
                     /\ \E i \in 1..Len(osrelease.lines) :
                           Contains(osrelease.lines[i], S_raspbian)
       IN  /\ sysplatform = S_darwin => ret = S_macos
           /\ sysplatform = S_win32 => ret = S_windows
           /\ sysplatform = S_linux => (ret = S_raspberry <=> marker)
           /\ (sysplatform \notin {S_darwin, S_win32} /\ ~(sysplatform = S_linux /\ marker))
                 => ret = sysplatform

C10_Witness ==
    /\ pc = "returned"
    /\ sysplatform = S_linux
    /\ osrelease = Readable(<<L_name, L_raspbian>>)
    /\ ret = S_raspberry

====
